---- MODULE Spec2Model ----
(***************************************************************************)
(* Model of scripts/create_cve_report_from_json.gmp.py (gvm-tools).        *)
(*                                                                         *)
(* Strings are sequences of symbols, so that substring tests, strip() and  *)
(* float() are computed instead of assumed.  Python dicts are sequences of *)
(* <<key, value>> pairs in insertion order.  None is the string "None".    *)
(***************************************************************************)
EXTENDS Integers, Sequences, FiniteSets, TLC

VARIABLES
    pc,         \* position of the process
    files,      \* file system: path -> sequence of csv rows (DOMAIN = existing files)
    gmpLog,     \* the calls made on the external client gmp, in order
    lkPath,     \* CPELookup.file: the path opened for reading, or None
    lkPos,      \* CPELookup.file position: number of rows already consumed
    lkCpes,     \* argument of the last get_cves call
    lkCalls,    \* number of get_cves calls made on the lookup
    lkVulns,    \* outcome of the last get_cves call: the dict returned, or raised
    lgPath,     \* ListGenerator.file: the path opened for writing, or None
    step,       \* create_cve_list: step
    count,      \* create_cve_list: int(count), the number of CVEs the server reported
    counter,    \* create_cve_list: counter
    first,      \* create_cve_list: first
    cpeArg,     \* get_cpe: the cpe it was called with
    cpeResp,    \* get_cpe: the response of the server to its query
    cpeRet,     \* get_cpe: the list returned, or raised
    elems,      \* the XML elements created so far, by node number
    uuids,      \* number of uuids generate_uuid has handed out
    rpResults,  \* Report.results: node number of the results element
    rpHosts,    \* Report.hosts: node numbers of the host elements
    rpReport,   \* Report.report: node number of the report element, 0 for None
    rpCalls,    \* the add_results calls made: their ip and cpes arguments
    args,       \* the parsed command line: create_list, list, json_file
    remaining,  \* parse_json: the entries of hosts_dump not yet visited
    lastEntry,  \* parse_json: the entry visited last
    lastCpes,   \* parse_json: cpes, the CPEs the entry visited last resolved to
    sendResp,   \* send_report: the response to create_container_task
    lgClosed    \* the list files ListGenerator has written and closed

lookupVars == <<lkPath, lkPos, lkCpes, lkCalls, lkVulns>>
listVars == <<lgPath, step, count, counter, first>>

cpeVars == <<cpeArg, cpeResp, cpeRet>>

reportVars == <<elems, uuids, rpResults, rpHosts, rpReport, rpCalls>>

mainVars == <<args, remaining, lastEntry, lastCpes, sendResp>>

vars == <<pc, files, gmpLog, lookupVars, listVars, cpeVars, reportVars, mainVars, lgClosed>>

None == "None"

(***************************************************************************)
(* The parts of the state a specification of one component leaves unused   *)
(***************************************************************************)
LookupIdle ==
    /\ lkPath = None
    /\ lkPos = 0
    /\ lkCpes = <<>>
    /\ lkCalls = 0
    /\ lkVulns = [raised |-> FALSE, value |-> <<>>]

ListIdle ==
    /\ lgPath = None
    /\ step = 0
    /\ count = 0
    /\ counter = 0
    /\ first = 0
    /\ lgClosed = {}

CpeIdle ==
    /\ cpeArg = <<>>
    /\ cpeResp = <<>>
    /\ cpeRet = [raised |-> FALSE, value |-> <<>>]

\* JSON values: null, a string, or a list of strings
Null == [kind |-> "null", v |-> <<>>]
Str(text) == [kind |-> "str", v |-> <<text>>]
List(texts) == [kind |-> "list", v |-> texts]

\* a host entry of the results: entry[0], entry[1], entry[3], entry[4], entry[7]
Entry(name, ips, os, os_cpe, cpes) ==
    [name |-> name, ips |-> ips, os |-> os, os_cpe |-> os_cpe, cpes |-> cpes]

NoEntry == Entry(<<>>, Null, Null, Null, Null)

MainIdle ==
    /\ args = [create_list |-> FALSE, list |-> None, json_file |-> None]
    /\ remaining = 0
    /\ lastEntry = NoEntry
    /\ lastCpes = <<>>
    /\ sendResp = <<>>

(***************************************************************************)
(* Bounds                                                                  *)
(***************************************************************************)
MaxRows == 2
MaxCpes == 2
MaxCalls == 2
MaxCount == 6
MaxStep == 3
MaxHosts == 2
MaxEntries == 3

(***************************************************************************)
(* Strings                                                                 *)
(***************************************************************************)
\* Python "sub in s"
Contains(sub, s) ==
    \E i \in 0..(Len(s) - Len(sub)) : SubSeq(s, i + 1, i + Len(sub)) = sub

RECURSIVE LStrip(_, _)
LStrip(s, ch) ==
    IF s # <<>> /\ Head(s) = ch THEN LStrip(Tail(s), ch) ELSE s

RECURSIVE RStrip(_, _)
RStrip(s, ch) ==
    IF s # <<>> /\ s[Len(s)] = ch THEN RStrip(SubSeq(s, 1, Len(s) - 1), ch) ELSE s

\* Python s.strip(ch)
Strip(s, ch) == RStrip(LStrip(s, ch), ch)

DigitVal == [d \in {"0", "5", "7"} |-> IF d = "0" THEN 0 ELSE IF d = "5" THEN 5 ELSE 7]

\* Python float(s): the number, or ValueError for a text that is no number
ValueError == -1
Float(s) ==
    IF Len(s) = 1 /\ s[1] \in DOMAIN DigitVal THEN DigitVal[s[1]] ELSE ValueError

\* seq[:-1]
AllButLast(seq) == SubSeq(seq, 1, Len(seq) - 1)

Quote(s) == <<"'">> \o s \o <<"'">>

(***************************************************************************)
(* Dicts                                                                   *)
(***************************************************************************)
DictHas(d, k) == \E i \in 1..Len(d) : d[i][1] = k

DictGet(d, k) == d[CHOOSE i \in 1..Len(d) : d[i][1] = k][2]

\* d[k] = v
DictSet(d, k, v) ==
    IF DictHas(d, k)
    THEN [i \in 1..Len(d) |-> IF d[i][1] = k THEN <<k, v>> ELSE d[i]]
    ELSE Append(d, <<k, v>>)

DictKeys(d) == {d[i][1] : i \in 1..Len(d)}

(***************************************************************************)
(* CPE names.  A v2.2 URI is "cpe:/" followed by its components joined by  *)
(* ":"; the list file holds such URIs between single quotes.               *)
(***************************************************************************)
RECURSIVE Join(_)
Join(comps) ==
    IF comps = <<>> THEN <<>>
    ELSE IF Len(comps) = 1 THEN comps[1]
    ELSE comps[1] \o <<":">> \o Join(Tail(comps))

\* the URI of the components given as symbols
Uri(syms) == <<"cpe:/">> \o Join([i \in 1..Len(syms) |-> <<syms[i]>>])

\* text.split(sep)
RECURSIVE Split(_, _, _)
Split(text, sep, word) ==
    IF text = <<>> THEN <<word>>
    ELSE IF Head(text) = sep THEN <<word>> \o Split(Tail(text), sep, <<>>)
    ELSE Split(Tail(text), sep, Append(word, Head(text)))

\* text.replace(sym, '')
RECURSIVE Remove(_, _)
Remove(text, sym) ==
    IF text = <<>> THEN <<>>
    ELSE IF Head(text) = sym THEN Remove(Tail(text), sym)
    ELSE <<Head(text)>> \o Remove(Tail(text), sym)

\* a v2.3 formatted string: "cpe:2.3:" and eleven attributes
Fs(attrs) == <<"cpe", ":", "2.3", ":">> \o Join([i \in 1..Len(attrs) |-> <<attrs[i]>>])

IsFs(cpe) ==
    LET fields == Split(cpe, ":", <<>>) IN
    /\ Len(fields) = 13
    /\ fields[1] = <<"cpe">>
    /\ fields[2] = <<"2.3">>

\* CPE._trim: the trailing empty components are dropped
RECURSIVE Trim(_)
Trim(comps) ==
    IF comps # <<>> /\ comps[Len(comps)] = <<>> THEN Trim(AllButLast(comps)) ELSE comps

\* CPE.as_uri_2_3 of a name whose edition, language and extended attributes
\* are ANY: part, vendor, product, version, update, edition, language with
\* ANY bound to the empty component
AsUri23(attrs) ==
    <<"cpe:/">> \o
    Join(Trim([i \in 1..7 |-> IF attrs[i] = <<"*">> THEN <<>> ELSE attrs[i]]))

\* "cpe.get_version()[0] == '*'"
IsAnyVersionNever(attrs) == FALSE
IsAnyVersion(attrs) == attrs[4] = <<"*">>

\* convert_cpe23_to_cpe22: the v2.2 CPE and any_version; raised for a text
\* that is no CPE
convert_cpe23_to_cpe22(cpe) ==
    IF ~IsFs(cpe) THEN [raised |-> TRUE, cpe |-> <<>>, any_version |-> FALSE]
    ELSE LET attrs == SubSeq(Split(cpe, ":", <<>>), 3, 13) IN
         [raised |-> FALSE,
          cpe |-> Remove(<<"CPE v2.2: ">> \o AsUri23(attrs), "CPE v2.2: "),
          any_version |-> IsAnyVersion(attrs)]

(***************************************************************************)
(* XML elements (lxml).  An element is a node with a tag, an id attribute  *)
(* (0 for none), the texts it and its text-only sub-elements carry, its    *)
(* children in order and its parent (0 for none).                          *)
(***************************************************************************)
Node(tag, id, info) == [tag |-> tag, id |-> id, info |-> info, kids |-> <<>>, parent |-> 0]

\* e.Element(tag): the new element gets the next node number
Element(H, tag, id, info) == Append(H, Node(tag, id, info))

RECURSIVE Without(_, _)
Without(seq, x) ==
    IF seq = <<>> THEN <<>>
    ELSE IF Head(seq) = x THEN Without(Tail(seq), x)
    ELSE <<Head(seq)>> \o Without(Tail(seq), x)

\* parent.append(child): lxml moves an element that already has a parent
AppendChildCopies(H, p, c) == [H EXCEPT ![p].kids = Append(@, c), ![c].parent = p]
AppendChild(H, p, c) ==
    LET old == H[c].parent
        H1 == IF old # 0 THEN [H EXCEPT ![old].kids = Without(@, c)] ELSE H
    IN  [H1 EXCEPT ![p].kids = Append(@, c), ![c].parent = p]

\* e.SubElement(parent, tag)
SubElement(H, p, tag, id, info) ==
    AppendChild(Element(H, tag, id, info), p, Len(H) + 1)

\* str(cvss)
FloatStr(n) == IF n = 0 THEN "0.0" ELSE IF n = 5 THEN "5.0" ELSE "7.0"

(***************************************************************************)
(* Report                                                                  *)
(***************************************************************************)
\* Report.__init__
ReportInit ==
    /\ elems = <<Node("results", 0, <<>>)>>
    /\ uuids = 0
    /\ rpResults = 1
    /\ rpHosts = <<>>
    /\ rpReport = 0
    /\ rpCalls = <<>>

\* generate_host_detail_elem: the detail element appended to the host; the
\* source sub-element is there only for a source_name that is not empty
HostDetail(H, host, name, value, source_name, source_type, source_description) ==
    LET src == IF source_name = <<>> THEN <<>>
               ELSE <<source_name, source_type, source_description>>
    IN  SubElement(H, host, "detail", 0, <<name, value>> \o src)

\* the (cpe, cve, cvss) triples in the order "for cpe, cves in cpes.items():
\* if cves: for cve, cvss in cves.items()" visits them
RECURSIVE CvePairs(_)
CvePairs(cpes) ==
    IF cpes = <<>> THEN <<>>
    ELSE LET cpe == Head(cpes)[1]
             cves == Head(cpes)[2]
         IN  [i \in 1..Len(cves) |-> <<cpe, cves[i][1], cves[i][2]>>] \o CvePairs(Tail(cpes))

\* the body of the inner loop of add_results for the triples left: a result
\* appended to Report.results and an App detail appended to the host
RECURSIVE AddPairs(_, _, _, _, _, _)
AddPairs(H, u, host, results, ip, pairs) ==
    IF pairs = <<>> THEN [elems |-> H, uuids |-> u]
    ELSE LET cpe == Head(pairs)[1]
             cve == Head(pairs)[2]
             cvss == Head(pairs)[3]
             H1 == Element(H, "result", u + 1, <<ip, cve, <<FloatStr(cvss)>>>>)
             result == Len(H1)
             H2 == HostDetail(H1, host, <<"App">>, cpe, cve, <<"cve">>, <<"CVE Scanner">>)
             H3 == AppendChild(H2, results, result)
         IN  AddPairs(H3, u + 1, host, results, ip, Tail(pairs))

\* Report.add_results: the elements and the uuid count it leaves, and the
\* host element it made
AddResults(H, u, results, ip, hostname, cpes, cpeo, os) ==
    LET H0 == Element(H, "host", 0, <<>>)
        host == Len(H0)
        H1 == SubElement(H0, host, "ip", 0, <<ip>>)
        H2 == HostDetail(H1, host, <<"hostname">>, hostname, <<"gvm-tools">>, <<>>, <<>>)
        H3 == HostDetail(H2, host, <<"best_os_txt">>, os, <<"gvm-tools">>, <<>>, <<"Host Details">>)
        H4 == HostDetail(H3, host, <<"best_os_cpe">>, cpeo, <<"gvm-tools">>, <<>>, <<"Host Details">>)
        r == AddPairs(H4, u + 1, host, results, ip, CvePairs(cpes))
    IN  [elems |-> r.elems, uuids |-> r.uuids, host |-> host]

RECURSIVE AppendAll(_, _, _)
AppendAll(H, p, cs) ==
    IF cs = <<>> THEN H ELSE AppendAll(AppendChild(H, p, Head(cs)), p, Tail(cs))

\* Report.finish_report: the elements it leaves and the report element
FinishReport(H, u, results, hosts) ==
    LET report_id == u + 1
        H0 == Element(H, "report", report_id, <<>>)
        report == Len(H0)
        H1 == SubElement(H0, report, "owner", 0, <<<<>>>>)
        H2 == SubElement(H1, report, "name", 0, <<<<"Report created from JSON-File">>>>)
        H3 == SubElement(H2, report, "report", report_id, <<>>)
        inner_report == Len(H3)
        H4 == SubElement(H3, inner_report, "ports", 0, <<>>)
        ports_elem == Len(H4)
        H5 == AppendChild(H4, inner_report, ports_elem)
        H6 == AppendChild(H5, inner_report, results)
        H7 == AppendAll(H6, inner_report, hosts)
        H8 == AppendChild(H7, report, inner_report)
    IN  [elems |-> H8, uuids |-> report_id, report |-> report]

add_results(ip, hostname, cpes, cpeo, os) ==
    /\ pc = "report"
    /\ Len(rpCalls) < MaxHosts
    /\ LET r == AddResults(elems, uuids, rpResults, ip, hostname, cpes, cpeo, os) IN
       /\ elems' = r.elems
       /\ uuids' = r.uuids
       /\ rpHosts' = Append(rpHosts, r.host)
    /\ rpCalls' = Append(rpCalls, [ip |-> ip, cpes |-> cpes])
    /\ UNCHANGED <<pc, files, gmpLog, lookupVars, listVars, cpeVars, rpResults, rpReport, mainVars, lgClosed>>

finish_report ==
    /\ pc = "report"
    /\ LET r == FinishReport(elems, uuids, rpResults, rpHosts) IN
       /\ elems' = r.elems
       /\ uuids' = r.uuids
       /\ rpReport' = r.report
    /\ pc' = "send"
    /\ UNCHANGED <<files, gmpLog, lookupVars, listVars, cpeVars, rpResults, rpHosts, rpCalls, mainVars, lgClosed>>

(***************************************************************************)
(* CPELookup                                                               *)
(***************************************************************************)
\* file.seek(offset)
FileSeekKeep(pos, offset) == pos
FileSeek(pos, offset) == offset

\* "if cpe in row[0]"
RowMatchesExact(cpe, row) == cpe = Strip(row[1], "'")
RowMatches(cpe, row) == Contains(cpe, row[1])

\* the inner loop of get_cves over the queried cpes, for one row
RECURSIVE ScanCpes(_, _, _)
ScanCpes(vulns, row, cpes) ==
    IF cpes = <<>> THEN [raised |-> FALSE, value |-> vulns]
    ELSE LET cpe == Head(cpes) IN
         IF RowMatches(cpe, row)
         THEN LET cvss == Float(Strip(row[3], "'")) IN
              IF cvss = ValueError THEN [raised |-> TRUE, value |-> <<>>]
              ELSE ScanCpes(
                       DictSet(vulns, cpe,
                               DictSet(DictGet(vulns, cpe), Strip(row[2], "'"), cvss)),
                       row, Tail(cpes))
         ELSE ScanCpes(vulns, row, Tail(cpes))

\* the outer loop of get_cves over the rows the reader still yields;
\* the result carries the number of rows consumed
RECURSIVE ScanRows(_, _, _, _)
ScanRows(vulns, rows, cpes, n) ==
    IF rows = <<>> THEN [raised |-> FALSE, value |-> vulns, read |-> n]
    ELSE LET v == ScanCpes(vulns, Head(rows), cpes) IN
         IF v.raised THEN [raised |-> TRUE, value |-> <<>>, read |-> n + 1]
         ELSE ScanRows(v.value, Tail(rows), cpes, n + 1)

\* "for cpe in cpes: vulns[cpe] = {}"
RECURSIVE EmptyVulns(_)
EmptyVulns(cpes) ==
    IF cpes = <<>> THEN <<>>
    ELSE DictSet(EmptyVulns(SubSeq(cpes, 1, Len(cpes) - 1)), cpes[Len(cpes)], <<>>)

\* CPELookup.get_cves on a file with the given rows, read from position pos:
\* the dict returned (or the exception raised) and the file position left
GetCves(rows, pos, cpes) ==
    LET r == ScanRows(EmptyVulns(cpes), SubSeq(rows, pos + 1, Len(rows)), cpes, 0) IN
    IF r.raised
    THEN [raised |-> TRUE, value |-> <<>>, pos |-> pos + r.read]
    ELSE [raised |-> FALSE, value |-> r.value, pos |-> FileSeek(pos + r.read, 0)]

\* one call of get_cves on the open lookup
get_cves(cpes) ==
    /\ pc = "ready"
    /\ lkCalls < MaxCalls
    /\ lkCalls' = lkCalls + 1
    /\ LET r == GetCves(files[lkPath], lkPos, cpes) IN
       /\ lkVulns' = [raised |-> r.raised, value |-> r.value]
       /\ lkPos' = r.pos
       /\ pc' = IF r.raised THEN "crashed" ELSE "ready"
    /\ lkCpes' = cpes
    /\ UNCHANGED <<files, gmpLog, lkPath, listVars, cpeVars, reportVars, mainVars, lgClosed>>

(***************************************************************************)
(* Specification of the lookup alone: any list file, any sequence of       *)
(* get_cves calls on one CPELookup.                                        *)
(***************************************************************************)
SeqsUpTo(S, n) == UNION {[1..k -> S] : k \in 0..n}

ListCpes == {Uri(<<"a", "v", "p", "1">>), Uri(<<"a", "v", "q", "1">>)}
ListCves == {<<"CVE-1">>, <<"CVE-2">>}
ListScores == {<<"5">>, <<"7">>, <<None>>}
ListRows == {<<Quote(c), Quote(v), Quote(s)>> : c \in ListCpes, v \in ListCves, s \in ListScores}

QueryCpes == {Uri(<<"a", "v", "p">>), Uri(<<"a", "w">>)}

ListPath == "cpes.csv"

InitLookup ==
    /\ pc = "ready"
    /\ \E rows \in SeqsUpTo(ListRows, MaxRows) : files = [p \in {ListPath} |-> rows]
    /\ gmpLog = <<>>
    /\ lkPath = ListPath
    /\ lkPos = 0
    /\ lkCpes = <<>>
    /\ lkCalls = 0
    /\ lkVulns = [raised |-> FALSE, value |-> <<>>]
    /\ ListIdle
    /\ CpeIdle
    /\ ReportInit
    /\ MainIdle

NextLookup == \E cpes \in SeqsUpTo(QueryCpes, MaxCpes) : get_cves(cpes)

SpecLookup == InitLookup /\ [][NextLookup]_vars

(***************************************************************************)
(* The external client gmp.  A call is logged with its arguments; a        *)
(* response is a sequence of info elements, or GmpError when the client    *)
(* raises.                                                                 *)
(***************************************************************************)
NoFirst == -1
AllRows == -1

GmpCall(op, type, rows, frst, uuid, task) ==
    [op |-> op, type |-> type, rows |-> rows, first |-> frst, uuid |-> uuid, task |-> task]

GetInfoList(type, rows, frst, uuid) == GmpCall("get_info_list", type, rows, frst, uuid, <<>>)

GmpError == <<[id |-> <<"GvmError">>, products |-> <<>>, cvss |-> <<>>]>>

(***************************************************************************)
(* ListGenerator                                                           *)
(***************************************************************************)
DefaultStep == 1000

\* the lines cpe_to_cve prints for one info element
InfoLines(info) ==
    IF info.id = <<>> \/ info.products = <<>> THEN <<>>
    ELSE LET cpes == Split(Strip(info.products, " "), " ", <<>>) IN
         [i \in 1..Len(cpes) |-> <<Quote(cpes[i]), Quote(info.id), Quote(info.cvss)>>]

\* ListGenerator.cpe_to_cve: the lines printed for a response
RECURSIVE CpeToCveLines(_)
CpeToCveLines(cve_tags) ==
    IF cve_tags = <<>> THEN <<>>
    ELSE InfoLines(Head(cve_tags)) \o CpeToCveLines(Tail(cve_tags))

cpe_to_cve(resp) == CpeToCveLines(AllButLast(resp))

\* "first = first + step"
NextFirstOffByOne(frst, stp) == frst + stp + 1
NextFirst(frst, stp) == frst + stp

\* "while counter > step"
MorePages(cnt, stp) == cnt > stp

\* the info elements a CVE page can hold: id is <<>> for an element without
\* id attribute, products is <<>> for no text, cvss is <<None>> for no text;
\* the last info of a response is the element without id that closes the list
CveInfo(id, products, cvss) == [id |-> id, products |-> products, cvss |-> cvss]
InfoTrailer == CveInfo(<<>>, <<>>, <<>>)
CveResponses ==
    { <<InfoTrailer>>,
      <<CveInfo(<<"CVE-1">>, Uri(<<"a", "v", "p", "1">>) \o <<" ">> \o Uri(<<"a", "v", "p", "2">>),
                <<"5">>),
        CveInfo(<<"CVE-2">>, Uri(<<"a", "v", "p", "2">>), <<None>>),
        InfoTrailer>> }

\* create_cve_list, the count query: the server reports n CVEs
ListCount(n) ==
    /\ pc = "list_count"
    /\ gmpLog' = Append(gmpLog, GetInfoList("CVE", 1, NoFirst, <<>>))
    /\ \/ /\ count' = n
          /\ counter' = n
          /\ first' = 0
          /\ pc' = "list_loop"
       \/ /\ pc' = "crashed"
          /\ UNCHANGED <<count, counter, first>>
    /\ UNCHANGED <<files, lookupVars, lgPath, step, cpeVars, reportVars, mainVars, lgClosed>>

\* create_cve_list, one turn of the while loop
ListPage(resp) ==
    /\ pc = "list_loop"
    /\ MorePages(counter, step)
    /\ gmpLog' = Append(gmpLog, GetInfoList("CVE", step, first, <<>>))
    /\ \/ /\ resp # GmpError
          /\ counter' = counter - step
          /\ first' = NextFirst(first, step)
          /\ files' = [files EXCEPT ![lgPath] = @ \o cpe_to_cve(resp)]
          /\ pc' = "list_loop"
       \/ /\ resp = GmpError
          /\ pc' = "crashed"
          /\ UNCHANGED <<files, counter, first>>
    /\ UNCHANGED <<lookupVars, lgPath, step, count, cpeVars, reportVars, mainVars, lgClosed>>

\* create_cve_list, "find the rest"
ListRest(resp) ==
    /\ pc = "list_loop"
    /\ ~MorePages(counter, step)
    /\ gmpLog' = Append(gmpLog, GetInfoList("CVE", counter, first, <<>>))
    /\ \/ /\ resp # GmpError
          /\ files' = [files EXCEPT ![lgPath] = @ \o cpe_to_cve(resp)]
          /\ pc' = "list_done"
       \/ /\ resp = GmpError
          /\ pc' = "crashed"
          /\ UNCHANGED files
    /\ UNCHANGED <<lookupVars, listVars, cpeVars, reportVars, mainVars, lgClosed>>

\* ListGenerator.finish_list
finish_list ==
    /\ pc = "list_done"
    /\ lgPath' = None
    /\ lgClosed' = lgClosed \cup {lgPath}
    /\ pc' = "json"
    /\ UNCHANGED <<files, gmpLog, lookupVars, step, count, counter, first, cpeVars, reportVars, mainVars>>

(***************************************************************************)
(* Specification of the list generator alone: any count, any step.         *)
(***************************************************************************)
InitList ==
    /\ pc = "list_count"
    /\ files = [p \in {ListPath} |-> <<>>]
    /\ gmpLog = <<>>
    /\ LookupIdle
    /\ lgPath = ListPath
    /\ step \in 1..MaxStep
    /\ count = 0
    /\ counter = 0
    /\ first = 0
    /\ lgClosed = {}
    /\ CpeIdle
    /\ ReportInit
    /\ MainIdle

NextList ==
    \/ \E n \in 0..MaxCount : ListCount(n)
    \/ \E resp \in CveResponses \cup {GmpError} : ListPage(resp)
    \/ \E resp \in CveResponses \cup {GmpError} : ListRest(resp)
    \/ finish_list

SpecList == InitList /\ [][NextList]_vars

\* the script runs to its end: a step that can be taken is taken
FairSpecList == SpecList /\ WF_vars(NextList)

(***************************************************************************)
(* get_cpe                                                                 *)
(***************************************************************************)
RECURSIVE InfoIds(_)
InfoIds(infos) == IF infos = <<>> THEN <<>> ELSE <<Head(infos).id>> \o InfoIds(Tail(infos))

\* get_cpe(gmp, cpe) when the server answers resp: the list returned and the
\* calls made on gmp
GetCpe(cpe, resp) ==
    LET c == convert_cpe23_to_cpe22(cpe)
        query == GetInfoList("CPE", AllRows, NoFirst, c.cpe \o <<":">>)
    IN  IF c.raised THEN [raised |-> TRUE, value |-> <<>>, calls |-> <<>>]
        ELSE IF ~c.any_version THEN [raised |-> FALSE, value |-> <<c.cpe>>, calls |-> <<>>]
        ELSE IF resp = GmpError THEN [raised |-> TRUE, value |-> <<>>, calls |-> <<query>>]
        ELSE [raised |-> FALSE, value |-> InfoIds(AllButLast(resp)), calls |-> <<query>>]

get_cpe(resp) ==
    /\ pc = "cpe_call"
    /\ LET r == GetCpe(cpeArg, resp) IN
       /\ cpeRet' = [raised |-> r.raised, value |-> r.value]
       /\ gmpLog' = gmpLog \o r.calls
       /\ pc' = IF r.raised THEN "crashed" ELSE "cpe_done"
       /\ cpeResp' = IF r.calls = <<>> THEN <<>> ELSE resp
    /\ UNCHANGED <<files, lookupVars, listVars, cpeArg, reportVars, mainVars, lgClosed>>

(***************************************************************************)
(* Specification of get_cpe alone: any CPE name, any response.             *)
(***************************************************************************)
CpeInfo(id) == CveInfo(id, <<>>, <<>>)
CpeResponses ==
    { <<>>,
      <<InfoTrailer>>,
      <<CpeInfo(Uri(<<"a", "v", "p", "1">>)), InfoTrailer>>,
      <<CpeInfo(Uri(<<"a", "v", "p", "1">>)), CpeInfo(Uri(<<"a", "v", "p", "2">>)), InfoTrailer>>,
      <<CpeInfo(Uri(<<"a", "v", "p", "2">>)), CpeInfo(Uri(<<"a", "v", "p", "1">>))>> }

\* names with edition, language and the extended attributes ANY
FsNames ==
    {Fs(<<part, vendor, product, version, update, "*", "*", "*", "*", "*", "*">>) :
        part \in {"a", "o"}, vendor \in {"v", "w"}, product \in {"p", "q"},
        version \in {"*", "-", "1"}, update \in {"*", "u"}}

NotACpe == <<>>

InitCpe ==
    /\ pc = "cpe_call"
    /\ files = [p \in {ListPath} |-> <<>>]
    /\ gmpLog = <<>>
    /\ LookupIdle
    /\ ListIdle
    /\ cpeArg \in FsNames \cup {NotACpe}
    /\ cpeResp = <<>>
    /\ cpeRet = [raised |-> FALSE, value |-> <<>>]
    /\ ReportInit
    /\ MainIdle

NextCpe == \E resp \in CpeResponses \cup {GmpError} : get_cpe(resp)

SpecCpe == InitCpe /\ [][NextCpe]_vars

(***************************************************************************)
(* Specification of the report alone: any sequence of add_results calls,   *)
(* then finish_report.                                                     *)
(***************************************************************************)
Cpe1 == Uri(<<"a", "v", "p", "1">>)
Cpe2 == Uri(<<"a", "v", "p", "2">>)
VulnsChoices ==
    { <<>>,
      << <<Cpe1, <<>>>> >>,
      << <<Cpe1, << <<<<"CVE-1">>, 5>> >>>> >>,
      << <<Cpe1, << <<<<"CVE-1">>, 5>>, <<<<"CVE-2">>, 7>> >>>>, <<Cpe2, <<>>>> >>,
      << <<Cpe1, << <<<<"CVE-1">>, 5>> >>>>, <<Cpe2, << <<<<>>, 0>> >>>> >> }

InitReport ==
    /\ pc = "report"
    /\ files = [p \in {ListPath} |-> <<>>]
    /\ gmpLog = <<>>
    /\ LookupIdle
    /\ ListIdle
    /\ CpeIdle
    /\ ReportInit
    /\ MainIdle

NextReport ==
    \/ \E ip \in {<<"ip1">>, <<"ip2">>}, cpes \in VulnsChoices :
          add_results(ip, <<"host">>, cpes, Uri(<<"o", "l">>), <<"linux">>)
    \/ finish_report

SpecReport == InitReport /\ [][NextReport]_vars

(***************************************************************************)
(* parse_json and main                                                     *)
(***************************************************************************)
\* gvmtools.helper.error_and_exit: the message is printed and the process
\* ends there
error_and_exit == "exited"

\* "if entry[3] is None"
OsMissingNever(entry) == FALSE
OsMissing(entry) == entry.os.kind = "null"

\* "if vulns:"
HasVulnsWithCve(vulns) == \E i \in 1..Len(vulns) : vulns[i][2] # <<>>
HasVulns(vulns) == vulns # <<>>

\* the get_cpe calls of parse_json for the CPEs left of entry[7]; resps
\* holds the answers of the server to the queries, in order
RECURSIVE ExtendCpes(_, _, _, _)
ExtendCpes(cpes, calls, texts, resps) ==
    IF texts = <<>> THEN [raised |-> FALSE, value |-> cpes, calls |-> calls]
    ELSE IF Head(texts) = <<>> THEN ExtendCpes(cpes, calls, Tail(texts), resps)
    ELSE LET r == GetCpe(Head(texts), IF resps = <<>> THEN <<>> ELSE Head(resps)) IN
         IF r.raised THEN [raised |-> TRUE, value |-> <<>>, calls |-> calls \o r.calls]
         ELSE ExtendCpes(cpes \o r.value, calls \o r.calls, Tail(texts),
                         IF r.calls = <<>> THEN resps ELSE Tail(resps))

\* parse_json, lines 438-451: cpes, the CPEs entry[7] resolves to
ResolveCpes(field, resps) ==
    IF field.kind = "null" THEN [raised |-> FALSE, value |-> <<>>, calls |-> <<>>]
    ELSE IF field.kind = "str"
         THEN LET r == GetCpe(field.v[1], IF resps = <<>> THEN <<>> ELSE Head(resps)) IN
              [raised |-> r.raised, value |-> r.value, calls |-> r.calls]
    ELSE ExtendCpes(<<>>, <<>>, field.v, resps)

\* the text of a JSON string, None for null
TextOf(field) == IF field.v = <<>> THEN <<None>> ELSE field.v[1]

\* "for entry in hosts_dump: ..." and then "report.finish_report()": where
\* parse_json goes on after an entry, with rem entries left before it
AfterEntryFinish(rem) == "report"
AfterEntry(rem) == IF rem = 1 THEN "report" ELSE "parse"

\* "task_id = res.xpath('//@id')[0]"
FirstOf(ids) == ids[1]

\* "if isinstance(ips, str): ips = [ips]"
IpList(ips) == ips.v

\* "for ip in ips: report.add_results(...)"
RECURSIVE AddResultsAll(_, _, _, _, _, _, _)
AddResultsAll(H, u, hosts, calls, ips, entry, vulns) ==
    IF ips = <<>> THEN [elems |-> H, uuids |-> u, hosts |-> hosts, calls |-> calls]
    ELSE LET r == AddResults(H, u, rpResults, Head(ips), entry.name, vulns,
                             convert_cpe23_to_cpe22(TextOf(entry.os_cpe)).cpe, TextOf(entry.os))
         IN  AddResultsAll(r.elems, r.uuids, Append(hosts, r.host),
                           Append(calls, [ip |-> Head(ips), cpes |-> vulns]),
                           Tail(ips), entry, vulns)

\* main, lines 478-482: with ++create-list the ListGenerator opens the file
\* named by +l for writing
main_list ==
    /\ pc = "start"
    /\ IF ~args.create_list
       THEN /\ pc' = "json"
            /\ UNCHANGED <<files, lgPath, step>>
       ELSE IF args.list = None
       THEN /\ pc' = "crashed"
            /\ UNCHANGED <<files, lgPath, step>>
       ELSE /\ files' = [p \in DOMAIN files \cup {args.list} |->
                            IF p = args.list THEN <<>> ELSE files[p]]
            /\ lgPath' = args.list
            /\ step' = DefaultStep
            /\ pc' = "list_count"
    /\ UNCHANGED <<gmpLog, lookupVars, count, counter, first, lgClosed, cpeVars, reportVars, mainVars>>

\* main, line 486, without +f: nothing is left to do
main_end ==
    /\ pc = "json"
    /\ args.json_file = None
    /\ pc' = "done"
    /\ UNCHANGED <<files, gmpLog, lookupVars, listVars, cpeVars, reportVars, mainVars, lgClosed>>

\* CPELookup.__init__ on the file named by +l
CPELookup_init ==
    /\ pc = "json"
    /\ args.json_file # None
    /\ IF args.list = None
       THEN /\ pc' = "crashed"
            /\ UNCHANGED <<lkPath, lkPos>>
       ELSE IF args.list \notin DOMAIN files
       THEN /\ pc' = error_and_exit
            /\ UNCHANGED <<lkPath, lkPos>>
       ELSE /\ lkPath' = args.list
            /\ lkPos' = 0
            /\ pc' = "load"
    /\ UNCHANGED <<files, gmpLog, lkCpes, lkCalls, lkVulns, listVars, cpeVars, reportVars, mainVars, lgClosed>>

\* main, lines 489-490, and parse_json, lines 420-423: the JSON file is
\* loaded, its results hold n entries, and the Report is made
load_json(n) ==
    /\ pc = "load"
    /\ IF args.json_file \notin DOMAIN files
       THEN /\ pc' = "crashed"
            /\ UNCHANGED remaining
       ELSE /\ remaining' = n
            /\ pc' = IF n = 0 THEN "report" ELSE "parse"
    /\ UNCHANGED <<files, gmpLog, lookupVars, listVars, cpeVars, reportVars,
                   args, lastEntry, lastCpes, sendResp, lgClosed>>

\* parse_json, one turn of "for entry in hosts_dump"
parse_entry(entry, resps) ==
    /\ pc = "parse"
    /\ remaining > 0
    /\ remaining' = remaining - 1
    /\ lastEntry' = entry
    /\ LET next == AfterEntry(remaining)
           os_cpe == IF entry.os_cpe.kind = "str"
                     THEN convert_cpe23_to_cpe22(TextOf(entry.os_cpe))
                     ELSE [raised |-> TRUE, cpe |-> <<>>, any_version |-> FALSE]
           c == ResolveCpes(entry.cpes, resps)
           r == GetCves(files[lkPath], lkPos, c.value)
       IN  IF OsMissing(entry)
           THEN /\ pc' = error_and_exit
                /\ UNCHANGED <<gmpLog, lkPos, lkCpes, lkVulns, lastCpes, reportVars>>
           ELSE IF os_cpe.raised
           THEN /\ pc' = "crashed"
                /\ UNCHANGED <<gmpLog, lkPos, lkCpes, lkVulns, lastCpes, reportVars>>
           ELSE IF c.raised
           THEN /\ pc' = "crashed"
                /\ gmpLog' = gmpLog \o c.calls
                /\ UNCHANGED <<lkPos, lkCpes, lkVulns, lastCpes, reportVars>>
           ELSE /\ gmpLog' = gmpLog \o c.calls
                /\ lastCpes' = c.value
                /\ lkCpes' = c.value
                /\ lkVulns' = [raised |-> r.raised, value |-> r.value]
                /\ lkPos' = r.pos
                /\ IF r.raised
                   THEN /\ pc' = "crashed"
                        /\ UNCHANGED reportVars
                   ELSE IF HasVulns(r.value) /\ entry.ips.kind = "null"
                   THEN /\ pc' = "crashed"
                        /\ UNCHANGED reportVars
                   ELSE IF HasVulns(r.value)
                   THEN LET a == AddResultsAll(elems, uuids, rpHosts, rpCalls,
                                               IpList(entry.ips), entry, r.value)
                        IN  /\ elems' = a.elems
                            /\ uuids' = a.uuids
                            /\ rpHosts' = a.hosts
                            /\ rpCalls' = a.calls
                            /\ pc' = next
                            /\ UNCHANGED <<rpResults, rpReport>>
                   ELSE /\ pc' = next
                        /\ UNCHANGED reportVars
    /\ UNCHANGED <<files, lkPath, lkCalls, listVars, cpeVars, args, sendResp, lgClosed>>

\* res.xpath('//@id'): the id attributes of a response
IdsOf(resp) == SelectSeq(InfoIds(resp), LAMBDA id : id # <<>>)

\* Report.send_report, and the end of parse_json and of main
send_report(res1, res2) ==
    /\ pc = "send"
    /\ sendResp' = res1
    /\ LET create == GmpCall("create_container_task", "", 0, NoFirst, <<>>, <<>>) IN
       IF res1 = GmpError \/ IdsOf(res1) = <<>>
       THEN /\ gmpLog' = Append(gmpLog, create)
            /\ pc' = "crashed"
       ELSE LET task_id == FirstOf(IdsOf(res1))
                import == GmpCall("import_report", "", 0, NoFirst, <<>>, task_id)
            IN  /\ gmpLog' = gmpLog \o <<create, import>>
                /\ pc' = IF res2 = GmpError \/ IdsOf(res2) = <<>> THEN "crashed" ELSE "done"
    /\ UNCHANGED <<files, lookupVars, listVars, cpeVars, reportVars,
                   args, remaining, lastEntry, lastCpes, lgClosed>>

(***************************************************************************)
(* The script: any command line, any JSON results, any server answers.     *)
(***************************************************************************)
JsonPath == "hosts.json"
NewPath == "new.csv"

SampleList ==
    << <<Quote(Cpe1), Quote(<<"CVE-1">>), Quote(<<"5">>)>>,
       <<Quote(Cpe2), Quote(<<"CVE-2">>), Quote(<<"7">>)>> >>

OsFs == Fs(<<"o", "l", "k", "5", "*", "*", "*", "*", "*", "*", "*">>)
AppFs1 == Fs(<<"a", "v", "p", "1", "*", "*", "*", "*", "*", "*", "*">>)
AppFs3 == Fs(<<"a", "v", "p", "3", "*", "*", "*", "*", "*", "*", "*">>)
AppFsAny == Fs(<<"a", "v", "p", "*", "*", "*", "*", "*", "*", "*", "*">>)

Ip1 == Str(<<"ip1">>)
Linux == Str(<<"linux">>)
Entries ==
    { Entry(<<"host">>, Ip1, Linux, Str(OsFs), Str(AppFs1)),
      Entry(<<"host">>, List(<<<<"ip1">>, <<"ip2">>>>), Linux, Str(OsFs), Str(AppFs3)),
      Entry(<<"host">>, List(<<>>), Linux, Str(OsFs), Str(AppFs1)),
      Entry(<<"host">>, Ip1, Linux, Str(OsFs), Str(AppFsAny)),
      Entry(<<"host">>, Ip1, Linux, Str(OsFs), Null),
      Entry(<<"host">>, List(<<<<"ip1">>, <<"ip2">>>>), Linux, Str(OsFs), List(<<>>)),
      Entry(<<"host">>, Ip1, Linux, Str(OsFs), List(<<<<>>, AppFs1>>)),
      Entry(<<"host">>, Ip1, Linux, Str(OsFs), List(<<<<>>>>)),
      Entry(<<"host">>, Ip1, Null, Str(OsFs), Str(AppFs1)),
      Entry(<<"host">>, Ip1, Linux, Null, Str(AppFs1)),
      Entry(<<"host">>, Null, Linux, Str(OsFs), Str(AppFs1)),
      Entry(<<"host">>, Ip1, Linux, Str(OsFs), Str(NotACpe)) }

\* the number of queries get_cpe makes for entry[7]
QueriesOf(entry) ==
    Len(SelectSeq(entry.cpes.v, LAMBDA t : convert_cpe23_to_cpe22(t).any_version))

ScriptCpeResponses ==
    { <<InfoTrailer>>,
      <<CpeInfo(Cpe1), CpeInfo(Cpe2), InfoTrailer>>,
      GmpError }

TaskResponses ==
    { <<>>, <<CpeInfo(<<"task-1">>)>>, <<CpeInfo(<<>>), CpeInfo(<<"task-2">>), CpeInfo(<<"x">>)>> }

Init ==
    /\ pc = "start"
    /\ files = [p \in {ListPath, JsonPath} |-> IF p = ListPath THEN SampleList ELSE <<>>]
    /\ gmpLog = <<>>
    /\ LookupIdle
    /\ ListIdle
    /\ CpeIdle
    /\ ReportInit
    /\ args \in [create_list : BOOLEAN, list : {None, ListPath, NewPath},
                  json_file : {None, JsonPath, NewPath}]
    /\ remaining = 0
    /\ lastEntry = NoEntry
    /\ lastCpes = <<>>
    /\ sendResp = <<>>

Next ==
    \/ main_list
    \/ \E n \in {1, DefaultStep + 1} : ListCount(n)
    \/ \E resp \in CveResponses \cup {GmpError} : ListPage(resp)
    \/ \E resp \in CveResponses \cup {GmpError} : ListRest(resp)
    \/ finish_list
    \/ main_end
    \/ CPELookup_init
    \/ \E n \in 0..MaxEntries : load_json(n)
    \/ \E entry \in Entries : \E resps \in [1..QueriesOf(entry) -> ScriptCpeResponses] :
          parse_entry(entry, resps)
    \/ finish_report
    \/ \E res1, res2 \in TaskResponses \cup {GmpError} : send_report(res1, res2)

Spec == Init /\ [][Next]_vars

(***************************************************************************)
(* C1, C9: the result of get_cves                                          *)
(***************************************************************************)
Range(f) == {f[i] : i \in DOMAIN f}

LookupRows == files[lkPath]

\* the rows whose first column contains cpe
MatchingRows(cpe) == {i \in 1..Len(LookupRows) : Contains(cpe, LookupRows[i][1])}

\* the CVE id / the score a row carries between the quotes of columns 2 and 3
RowCve(i) == CHOOSE v \in ListCves : LookupRows[i][2] = Quote(v)
RowScore(i) ==
    LET ds == {d \in DOMAIN DigitVal : LookupRows[i][3] = Quote(<<d>>)} IN
    IF ds = {} THEN -1 ELSE DigitVal[CHOOSE d \in ds : TRUE]

\* a later matching row carries the same CVE id
Overridden(cpe, i) == \E j \in MatchingRows(cpe) : j > i /\ RowCve(j) = RowCve(i)

LookupReturned == lkCalls > 0 /\ ~lkVulns.raised

OneKeyPerCpe ==
    /\ DictKeys(lkVulns.value) = Range(lkCpes)
    /\ Len(lkVulns.value) = Cardinality(Range(lkCpes))

C9_LookupReusable ==
    LookupReturned =>
        /\ lkPos = 0
        /\ lkVulns.value = GetCves(LookupRows, 0, lkCpes).value

\* a second call returned CVEs
C9_Witness ==
    /\ LookupReturned
    /\ lkCalls = 2
    /\ \E cpe \in Range(lkCpes) : DictGet(lkVulns.value, cpe) # <<>>

(***************************************************************************)
(* C8: the pages create_cve_list asks for                                  *)
(***************************************************************************)
\* the requests made after the count query
PageRequests == SubSeq(gmpLog, 2, Len(gmpLog))

RECURSIVE RowsBefore(_, _)
RowsBefore(pages, k) == IF k <= 1 THEN 0 ELSE pages[k - 1].rows + RowsBefore(pages, k - 1)

ListFinished == pc \in {"list_done", "json"}

C8_Inv ==
    /\ \A k \in 1..Len(PageRequests) :
          /\ PageRequests[k].first = RowsBefore(PageRequests, k)
          /\ PageRequests[k].rows >= 0
          /\ PageRequests[k].rows <= step
    /\ pc = "list_loop" => first + counter = count
    /\ ListFinished => RowsBefore(PageRequests, Len(PageRequests) + 1) = count

\* C8: create_cve_list terminates; its page requests start at 0, are
\* consecutive without overlap, ask for at most step rows each and together
\* cover exactly the count entries; first + counter = count before every
\* request.
C8_PagesCoverCount == []C8_Inv /\ <>(pc \in {"json", "crashed"})

\* a list finished in three pages or more, the last one shorter than step
C8_Witness ==
    /\ ListFinished
    /\ Len(PageRequests) >= 3
    /\ count % step # 0

(***************************************************************************)
(* C7: get_cpe                                                             *)
(***************************************************************************)
\* the version attribute of the name get_cpe was called with
ArgVersion == cpeArg[11]

\* C7: with a version other than '*' get_cpe returns the one converted CPE
\* and makes no call; with version '*' it makes one get_info_list query and
\* returns the ids of all info elements of the response but the last, in
\* response order.
C7_GetCpeByVersion ==
    pc = "cpe_done" =>
        /\ ArgVersion # "*" =>
              /\ cpeRet.value = <<convert_cpe23_to_cpe22(cpeArg).cpe>>
              /\ Head(cpeRet.value)[1] = "cpe:/"
              /\ gmpLog = <<>>
        /\ ArgVersion = "*" =>
              /\ Len(gmpLog) = 1
              /\ gmpLog[1].op = "get_info_list"
              /\ Len(cpeRet.value) = IF cpeResp = <<>> THEN 0 ELSE Len(cpeResp) - 1
              /\ \A i \in 1..Len(cpeRet.value) : cpeRet.value[i] = cpeResp[i].id

\* get_cpe returned two ids for a name without version
C7_Witness ==
    /\ pc = "cpe_done"
    /\ ArgVersion = "*"
    /\ Len(cpeRet.value) = 2

(***************************************************************************)
(* C6: the shape of the finished report                                    *)
(***************************************************************************)
KidsTagged(n, tag) == SelectSeq(elems[n].kids, LAMBDA k : elems[k].tag = tag)

RECURSIVE PairCount(_)
PairCount(cpes) == IF cpes = <<>> THEN 0 ELSE Len(Head(cpes)[2]) + PairCount(Tail(cpes))

RECURSIVE CallsPairCount(_)
CallsPairCount(calls) ==
    IF calls = <<>> THEN 0 ELSE PairCount(Head(calls).cpes) + CallsPairCount(Tail(calls))

\* every element is the child of its parent once, and of no other element
IsTree ==
    \A n \in 1..Len(elems) :
        /\ \A i \in 1..Len(elems[n].kids) :
              /\ elems[elems[n].kids[i]].parent = n
              /\ \A j \in 1..Len(elems[n].kids) : elems[n].kids[i] = elems[n].kids[j] => i = j
        /\ elems[n].parent # 0 => \E i \in 1..Len(elems[elems[n].parent].kids) :
                                      elems[elems[n].parent].kids[i] = n

IsAppDetail(k) == elems[k].tag = "detail" /\ elems[k].info[1] = <<"App">>

\* C6: after add_results calls and finish_report the report is a tree: one
\* outer report holding one inner report of the same id, which holds one
\* ports, one results and one host per add_results call in call order; the
\* results hold one result per (CPE, CVE) pair of each call, each host its
\* 3 fixed details and one App detail per (CPE, CVE) pair of its call.
C6_ReportShape ==
    rpReport # 0 =>
        LET inners == KidsTagged(rpReport, "report") IN
        /\ IsTree
        /\ elems[rpReport].tag = "report"
        /\ elems[rpReport].parent = 0
        /\ Len(inners) = 1
        /\ elems[inners[1]].id = elems[rpReport].id
        /\ LET inner == inners[1]
               hosts == KidsTagged(inner, "host")
               results == KidsTagged(inner, "results")
           IN  /\ Len(KidsTagged(inner, "ports")) = 1
               /\ Len(results) = 1
               /\ Len(elems[inner].kids) = 2 + Len(rpCalls)
               /\ Len(hosts) = Len(rpCalls)
               /\ \A k \in Range(elems[results[1]].kids) : elems[k].tag = "result"
               /\ Len(elems[results[1]].kids) = CallsPairCount(rpCalls)
               /\ \A i \in 1..Len(hosts) :
                     LET details == KidsTagged(hosts[i], "detail")
                         apps == SelectSeq(details, IsAppDetail)
                     IN  /\ \E k \in Range(elems[hosts[i]].kids) :
                               elems[k].tag = "ip" /\ elems[k].info = <<rpCalls[i].ip>>
                         /\ Len(details) = 3 + PairCount(rpCalls[i].cpes)
                         /\ Len(apps) = PairCount(rpCalls[i].cpes)
                         /\ \A a \in 1..Len(apps) :
                               \E c \in 1..Len(rpCalls[i].cpes) :
                                   /\ rpCalls[i].cpes[c][1] = elems[apps[a]].info[2]
                                   /\ rpCalls[i].cpes[c][2] # <<>>

\* a report finished after two add_results calls for different hosts, both
\* with results
C6_Witness ==
    /\ rpReport # 0
    /\ Len(rpCalls) = 2
    /\ rpCalls[1].ip # rpCalls[2].ip
    /\ PairCount(rpCalls[1].cpes) = 2
    /\ PairCount(rpCalls[2].cpes) = 1

(***************************************************************************)
(* C2, C3, C5, C10: the run of the script                                  *)
(***************************************************************************)
SubmitCalls ==
    SelectSeq(gmpLog, LAMBDA c : c.op \in {"create_container_task", "import_report"})

Ended == pc \in {"done", "crashed", "exited"}

\* the first id attribute of the response to create_container_task
ReturnedTaskId ==
    sendResp[CHOOSE i \in 1..Len(sendResp) :
                 sendResp[i].id # <<>> /\ \A j \in 1..(i - 1) : sendResp[j].id = <<>>].id

C2_Inv ==
    /\ pc = "exited" => SubmitCalls = <<>> /\ rpReport = 0
    /\ lastEntry # NoEntry /\ lastEntry.os = Null => pc = "exited"

\* C2: a list file that does not exist and a host entry with a null OS end
\* the process at once: no later entry is visited, nothing happens after
\* the exit, and neither create_container_task nor import_report is called.
C2_FatalInputEndsRun ==
    /\ []C2_Inv
    /\ [][/\ pc # "exited"
          /\ (/\ pc = "json"
              /\ args.json_file # None
              /\ args.list # None
              /\ args.list \notin DOMAIN files) => pc' = "exited"]_vars

\* the run ended on a null OS after an earlier entry was added to the
\* report, with an entry left
C2_Witness ==
    /\ pc = "exited"
    /\ lastEntry.os = Null
    /\ rpCalls # <<>>
    /\ remaining > 0

\* C3: a run with +f that ends without error has called
\* create_container_task once and then import_report once, with the task id
\* of the response, as its last two calls; no such call is made before all
\* entries are visited and the report is built.
C3_SubmitOnceAtEnd ==
    /\ SubmitCalls # <<>> => remaining = 0 /\ rpReport # 0 /\ pc \in {"done", "crashed"}
    /\ pc = "done" /\ args.json_file # None =>
          /\ Len(SubmitCalls) = 2
          /\ SubmitCalls = SubSeq(gmpLog, Len(gmpLog) - 1, Len(gmpLog))
          /\ SubmitCalls[1].op = "create_container_task"
          /\ SubmitCalls[2].op = "import_report"
          /\ SubmitCalls[2].task = ReturnedTaskId

\* a report of two hosts was sent
C3_Witness ==
    /\ pc = "done"
    /\ args.json_file # None
    /\ Len(rpCalls) = 2

\* C5 as stated: a run with "++create-list +f <filename>" (and no +l) ends
\* with the list written to <filename> and the file closed.
C5_CreateListAtFile ==
    Ended /\ args.create_list /\ args.list = None /\ args.json_file # None
        => args.json_file \in lgClosed

\* the number of IPs of an entry: a string counts as one
IpCount(entry) == IF entry.ips.kind = "str" THEN 1 ELSE Len(entry.ips.v)

NoCpeGiven(entry) ==
    \/ entry.cpes = Null
    \/ entry.cpes.kind = "list" /\ \A i \in 1..Len(entry.cpes.v) : entry.cpes.v[i] = <<>>

\* C10: an entry that resolves to at least one CPE gets one add_results
\* call per IP, in order, also when no CVE matches; an entry that resolves
\* to no CPE, or whose CPE field is null or empty, adds nothing.
C10_HostPerIpIffCpe ==
    [][pc = "parse" =>
          LET new == SubSeq(rpCalls', Len(rpCalls) + 1, Len(rpCalls')) IN
          /\ SubSeq(rpCalls', 1, Len(rpCalls)) = rpCalls
          /\ pc' \in {"crashed", "exited"} => new = <<>> /\ elems' = elems
          /\ pc' \in {"parse", "report"} =>
                /\ lastCpes' # <<>> =>
                      /\ Len(new) = IpCount(lastEntry')
                      /\ \A i \in 1..Len(new) : new[i].ip = lastEntry'.ips.v[i]
                      /\ Len(rpHosts') = Len(rpHosts) + IpCount(lastEntry')
                /\ lastCpes' = <<>> => new = <<>> /\ elems' = elems
                /\ NoCpeGiven(lastEntry') => new = <<>> /\ elems' = elems]_vars

\* an entry whose CPE matches no CVE was added with its two IPs
C10_Witness ==
    /\ pc \in {"parse", "report"}
    /\ lastEntry.cpes = Str(AppFs3)
    /\ Len(rpCalls) >= 2
    /\ PairCount(rpCalls[Len(rpCalls)].cpes) = 0
    /\ rpCalls[Len(rpCalls)].ip = <<"ip2">>

====
